---- MODULE Spec2Model ----
(***************************************************************************)
(* Model of the dashboards of Jerry-HomeMarketing/demov1:                  *)
(*   pages/4_Ad_Performance_Command_Center.py  (ratios, aggregation,       *)
(*       min-max scaling, weighted PerformanceGrade)                       *)
(*   pages/3_Financial_Forecaster.py           (12-month forecast and      *)
(*       trend, expense anomaly detector)                                  *)
(*   pages/2_Customer_Intelligence.py          (scorecard colours)         *)
(*   generate_customer_data.py                 (health score, churn risk)  *)
(*   app.py, 1_Operations_Hub.py               (sales filter, KPIs)        *)
(*                                                                         *)
(* Numbers.  pandas columns are IEEE doubles.  A value is modelled as a    *)
(* pair [n, d]: an exact fraction n/d in lowest terms when d > 0, and the  *)
(* three special values of IEEE arithmetic when d = 0: +inf = [1, 0],      *)
(* -inf = [-1, 0], NaN = [0, 0].  The operators F* below follow the IEEE   *)
(* rules for inf and NaN; rounding of finite results is not modelled.      *)
(***************************************************************************)
EXTENDS Integers, Sequences, FiniteSets, TLC

\* ------------------------------------------------------------------ bounds
MaxRecords == 2
MaxMonths == 5
LongMonths == 12

\* ------------------------------------------------- IEEE-like arithmetic
Abs(i) == IF i < 0 THEN -i ELSE i

RECURSIVE GCD(_, _)
GCD(a, b) == IF b = 0 THEN a ELSE GCD(b, a % b)

Sign(i) == IF i > 0 THEN 1 ELSE IF i < 0 THEN -1 ELSE 0

NaN == [n |-> 0, d |-> 0]
Inf == [n |-> 1, d |-> 0]
NegInf == [n |-> -1, d |-> 0]

IsNaN(x) == x.d = 0 /\ x.n = 0
IsInf(x) == x.d = 0 /\ x.n # 0
IsFinite(x) == x.d > 0

\* the double of the fraction a/b, b > 0, in lowest terms
Frac(a, b) ==
    LET g == GCD(Abs(a), b)
    IN  [n |-> a \div g, d |-> b \div g]

\* the double of an integer column value
F(i) == [n |-> i, d |-> 1]

Zero == F(0)
One == F(1)
Half == Frac(1, 2)

\* x / y on doubles (numpy true division: no exception, inf and NaN results)
FDiv(x, y) ==
    IF IsNaN(x) \/ IsNaN(y) THEN NaN
    ELSE IF IsInf(x) THEN (IF IsInf(y) THEN NaN
                           ELSE [n |-> (IF y.n < 0 THEN -x.n ELSE x.n), d |-> 0])
    ELSE IF IsInf(y) THEN Zero
    ELSE IF y.n = 0 THEN [n |-> Sign(x.n), d |-> 0]
    ELSE Frac(Sign(y.n) * x.n * y.d, Abs(y.n) * x.d)

\* x + y on doubles
FAdd(x, y) ==
    IF IsNaN(x) \/ IsNaN(y) THEN NaN
    ELSE IF IsInf(x) THEN (IF IsInf(y) /\ y.n # x.n THEN NaN ELSE x)
    ELSE IF IsInf(y) THEN y
    ELSE LET g == GCD(x.d, y.d)
         IN  Frac(x.n * (y.d \div g) + y.n * (x.d \div g), (x.d \div g) * y.d)

FNeg(x) == [n |-> -x.n, d |-> x.d]

\* x - y on doubles
FSub(x, y) == FAdd(x, FNeg(y))

\* x * y on doubles
FMul(x, y) ==
    IF IsNaN(x) \/ IsNaN(y) THEN NaN
    ELSE IF IsInf(x) \/ IsInf(y)
         THEN [n |-> Sign(x.n) * Sign(y.n), d |-> 0]
    ELSE LET a == Frac(x.n, y.d)
             b == Frac(y.n, x.d)
         IN  Frac(a.n * b.n, a.d * b.d)

\* x < y on doubles (False when either is NaN)
FLt(x, y) ==
    IF IsNaN(x) \/ IsNaN(y) THEN FALSE
    ELSE IF IsInf(x) THEN x.n < 0 /\ ~(IsInf(y) /\ y.n < 0)
    ELSE IF IsInf(y) THEN y.n > 0
    ELSE LET g == GCD(x.d, y.d)
         IN  x.n * (y.d \div g) < y.n * (x.d \div g)

\* x == y on doubles (False when either is NaN)
FEq(x, y) == ~IsNaN(x) /\ ~IsNaN(y) /\ x = y

FLe(x, y) == FLt(x, y) \/ FEq(x, y)

\* DataFrame.fillna(0) on one cell
FillNa(x) == IF IsNaN(x) THEN Zero ELSE x

\* DataFrame.replace([inf, -inf], 0) on one cell
ReplaceInf(x) == IF IsInf(x) THEN Zero ELSE x

\* ------------------------------------------- sequences and column helpers
RECURSIVE SumCol(_, _)
\* Series.sum() of the integer column col of the rows of frame
SumCol(frame, col) ==
    IF frame = << >> THEN 0
    ELSE Head(frame)[col] + SumCol(Tail(frame), col)

RECURSIVE ColMin(_, _)
\* Series.min() (skipna) of the double column col; NaN for an all-NaN column
ColMin(frame, col) ==
    IF frame = << >> THEN NaN
    ELSE LET x == Head(frame)[col]
             m == ColMin(Tail(frame), col)
         IN  IF IsNaN(x) THEN m
             ELSE IF IsNaN(m) THEN x
             ELSE IF FLt(x, m) THEN x ELSE m

RECURSIVE ColMax(_, _)
\* Series.max() (skipna) of the double column col; NaN for an all-NaN column
ColMax(frame, col) ==
    IF frame = << >> THEN NaN
    ELSE LET x == Head(frame)[col]
             m == ColMax(Tail(frame), col)
         IN  IF IsNaN(x) THEN m
             ELSE IF IsNaN(m) THEN x
             ELSE IF FLt(m, x) THEN x ELSE m

\* ============================================================ Ad Performance
\* data/ad_performance_data.csv: the platforms, in the order groupby sorts them
PlatformOrder == <<"Google Ads", "Meta Ads">>
Platforms == {PlatformOrder[i] : i \in 1..Len(PlatformOrder)}

\* values a CSV cell of each numeric column is drawn from
SpendVals == {0, 2}
RevenueVals == {0, 3}
ImpressionsVals == {0, 4}
ClicksVals == {0, 1}
ConversionsVals == {0, 1}

\* a third spend value, for rows whose other columns are all nonzero
FullRowSpendVals == {1}

AdRecords ==
    {r \in [Platform : Platforms, Spend : SpendVals \cup FullRowSpendVals,
            Revenue : RevenueVals, Impressions : ImpressionsVals,
            Clicks : ClicksVals, Conversions : ConversionsVals] :
        r.Spend \in FullRowSpendVals =>
            r.Revenue # 0 /\ r.Impressions # 0 /\ r.Clicks # 0 /\ r.Conversions # 0}

PlatformIndex(p) == CHOOSE i \in 1..Len(PlatformOrder) : PlatformOrder[i] = p

RowKey(r) ==
    <<r.Spend, r.Revenue, r.Impressions, r.Clicks, r.Conversions,
      PlatformIndex(r.Platform)>>

RECURSIVE LexLe(_, _)
\* a <= b in the lexicographic order of two tuples of the same length
LexLe(a, b) ==
    \/ a = << >>
    \/ Head(a) < Head(b)
    \/ Head(a) = Head(b) /\ LexLe(Tail(a), Tail(b))

\* The files of at most MaxRecords rows.  The page never reads the position of a
\* row, so one file stands for all the files with the same rows in another
\* order: the one whose rows are in the order of RowKey (the platform comes last
\* in the key, so the rows of a platform need not be next to each other).
AdFiles ==
    UNION {{f \in [1..k -> AdRecords] :
               \A i \in 1..(k - 1) : LexLe(RowKey(f[i]), RowKey(f[i + 1]))}
           : k \in 1..MaxRecords}

\* the files with one row for each platform
DailyFiles ==
    {f \in [1..Len(PlatformOrder) -> AdRecords] :
        \A i \in 1..Len(PlatformOrder) : f[i].Platform = PlatformOrder[i]}

\* the dataset of two platforms with one record each: platform A is Meta Ads,
\* which groupby sorts after platform B, Google Ads
ScenarioRecords ==
    <<[Platform |-> "Meta Ads", Spend |-> 100, Revenue |-> 400,
       Impressions |-> 1000, Clicks |-> 50, Conversions |-> 5],
      [Platform |-> "Google Ads", Spend |-> 200, Revenue |-> 300,
       Impressions |-> 2000, Clicks |-> 80, Conversions |-> 4]>>

\* all the weight on ROAS
ScenarioWeights ==
    [weight_roas |-> 100, weight_ctr |-> 0, weight_cpc |-> 0, weight_conv_rate |-> 0]

\* the files with the two records, in either order
ScenarioAdFiles ==
    {ScenarioRecords, <<ScenarioRecords[2], ScenarioRecords[1]>>}

\* a dataset in which neither platform is the best in every KPI: Meta Ads has
\* the higher ROAS and the lower CPC, Google Ads the higher CTR and conversion rate
TradeOffRecords ==
    <<[Platform |-> "Meta Ads", Spend |-> 100, Revenue |-> 400,
       Impressions |-> 1000, Clicks |-> 50, Conversions |-> 5],
      [Platform |-> "Google Ads", Spend |-> 200, Revenue |-> 300,
       Impressions |-> 1000, Clicks |-> 80, Conversions |-> 12]>>

\* the files of the scenario and the file of the trade-off
PageFiles == ScenarioAdFiles \cup {TradeOffRecords}

\* the columns generate_ad_data.py writes
AdColumns ==
    {"Date", "Platform", "Campaign", "CreativeType", "CreativeName",
     "Impressions", "Clicks", "Spend", "Conversions", "Revenue"}

\* the columns load_data reads
LoadColumns == {"Date", "Revenue", "Spend", "Clicks", "Impressions", "Conversions"}

\* the columns the creative analysis groups by
CreativeColumns == {"CreativeName", "CreativeType"}

\* the file as generate_ad_data.py writes it
AdHeader == [exists |-> TRUE, columns |-> AdColumns]

\* no file, the generated file, and the files that lack one column
AdHeaders ==
    {[exists |-> FALSE, columns |-> {}], AdHeader}
        \cup {[exists |-> TRUE, columns |-> AdColumns \ {c}] : c \in AdColumns}

\* the sliders of the sidebar: default positions and the positions a user moves to
DefaultWeights ==
    [weight_roas |-> 50, weight_ctr |-> 15, weight_cpc |-> 20,
     weight_conv_rate |-> 15]
Sliders == DOMAIN DefaultWeights
SliderVals == {0}
\* the positions of the scenario with all the weight on one KPI
ScenarioSliderVals == {0, 100}

VARIABLES
    ad_csv,            \* rows of data/ad_performance_data.csv
    loaded,            \* st.cache_data holds the result of load_data
    df,                \* the cached frame returned by load_data
    weights,           \* positions of the four sliders
    platform_summary,  \* the frame the ranking table and the charts are drawn from
    ranked_platforms,  \* the rows of the ranking table, in the order shown
    ad_header,         \* whether the file exists, and the columns of its header
    page_end,          \* how the last script run of the session ended
    peer               \* a second browser session on the same server process

VARIABLES
    fin_csv,           \* the Expense rows of data/financial_data.csv, by category and month
    fin_loaded,        \* the Financial Forecaster script has run
    expense_pivot,     \* Category x Month table of summed expenses
    threshold,         \* the threshold of each category of the anomaly loop
    anomalies,         \* the list the anomaly loop appends to
    fin_income,        \* the Income rows of data/financial_data.csv, by month
    sales_growth_rate, \* the growth slider divided by 100.0
    new_monthly_expense, \* the new recurring expense slider
    forecast_df,       \* the 12 rows of the forecast
    trend              \* the trend word of the summary

VARIABLES
    cust_csv,          \* rows of data/customer_intelligence_data.csv
    cust_loaded,       \* st.cache_data holds the result of load_data
    cust_df,           \* the cached frame of the Customer Intelligence page
    selected_risk,     \* the choice of the churn-risk selectbox
    filtered_df,       \* the rows of the selected churn risk
    styled_df          \* the scorecard: rows by health score, with their colour

VARIABLES
    sales_csv,         \* rows of innovategear_sales_data.csv
    sales_page,        \* the script that serves the sales dashboard
    sales_df,          \* the cached frame of the sales dashboard
    date_input,        \* the value of the date range widget
    selected_categories, \* the value of the category multiselect
    selected_sources,  \* the value of the marketing source multiselect
    sales_filtered_df, \* filtered_df of the sales dashboard
    sales_kpis,        \* the four KPIs of the sales dashboard
    sales_warning,     \* the 'No data available' warning is shown
    sales_end          \* how the last run of the sales dashboard ended

ad_vars ==
    <<ad_csv, loaded, df, weights, platform_summary, ranked_platforms, ad_header,
      page_end, peer>>
fin_vars ==
    <<fin_csv, fin_loaded, expense_pivot, threshold, anomalies, fin_income,
      sales_growth_rate, new_monthly_expense, forecast_df, trend>>
cust_vars == <<cust_csv, cust_loaded, cust_df, selected_risk, filtered_df, styled_df>>
sales_vars ==
    <<sales_csv, sales_page, sales_df, date_input, selected_categories,
      selected_sources, sales_filtered_df, sales_kpis, sales_warning, sales_end>>
vars == <<ad_vars, fin_vars, cust_vars, sales_vars>>

\* load_data with the replace of infinities left out
LoadRow_NoReplaceInf(r) ==
    [Platform |-> r.Platform, Spend |-> r.Spend, Revenue |-> r.Revenue,
     Impressions |-> r.Impressions, Clicks |-> r.Clicks,
     Conversions |-> r.Conversions,
     ROAS |-> FillNa(FDiv(F(r.Revenue), F(r.Spend))),
     CTR |-> FillNa(FDiv(F(r.Clicks), F(r.Impressions))),
     CPC |-> FillNa(FDiv(F(r.Spend), F(r.Clicks))),
     ConversionRate |-> FillNa(FDiv(F(r.Conversions), F(r.Clicks)))]

\* one row of load_data: the four per-record ratios, then fillna(0), replace(inf, 0)
LoadRow(r) ==
    [Platform |-> r.Platform, Spend |-> r.Spend, Revenue |-> r.Revenue,
     Impressions |-> r.Impressions, Clicks |-> r.Clicks,
     Conversions |-> r.Conversions,
     ROAS |-> ReplaceInf(FillNa(FDiv(F(r.Revenue), F(r.Spend)))),
     CTR |-> ReplaceInf(FillNa(FDiv(F(r.Clicks), F(r.Impressions)))),
     CPC |-> ReplaceInf(FillNa(FDiv(F(r.Spend), F(r.Clicks)))),
     ConversionRate |-> ReplaceInf(FillNa(FDiv(F(r.Conversions), F(r.Clicks))))]

load_data(file) == [i \in 1..Len(file) |-> LoadRow(file[i])]

\* df[df['Platform'] == p]
OfPlatform(frame, p) == SelectSeq(frame, LAMBDA r : r.Platform = p)

\* the group keys of df.groupby('Platform'), sorted
GroupKeys(frame) ==
    SelectSeq(PlatformOrder, LAMBDA p : \E i \in 1..Len(frame) : frame[i].Platform = p)

RECURSIVE SumF(_, _)
\* Series.sum() of the double column col
SumF(frame, col) ==
    IF frame = << >> THEN Zero
    ELSE FAdd(Head(frame)[col], SumF(Tail(frame), col))

\* Series.mean() of the double column col
MeanF(frame, col) == FDiv(SumF(frame, col), F(Len(frame)))

\* the summary row with each aggregate KPI taken as the mean of the per-record ratio
SummaryRow_MeanOfRatios(frame, p) ==
    LET g == OfPlatform(frame, p)
    IN  [Platform |-> p,
         TotalSpend |-> SumCol(g, "Spend"), TotalRevenue |-> SumCol(g, "Revenue"),
         TotalImpressions |-> SumCol(g, "Impressions"),
         TotalClicks |-> SumCol(g, "Clicks"),
         TotalConversions |-> SumCol(g, "Conversions"),
         AvgROAS |-> FillNa(MeanF(g, "ROAS")),
         AvgCTR |-> FillNa(MeanF(g, "CTR")),
         AvgCPC |-> FillNa(MeanF(g, "CPC")),
         AvgConvRate |-> FillNa(MeanF(g, "ConversionRate"))]

\* one row of df.groupby('Platform').agg(...sum...) with the aggregate KPIs and fillna(0)
SummaryRow(frame, p) ==
    LET g == OfPlatform(frame, p)
        TotalSpend == SumCol(g, "Spend")
        TotalRevenue == SumCol(g, "Revenue")
        TotalImpressions == SumCol(g, "Impressions")
        TotalClicks == SumCol(g, "Clicks")
        TotalConversions == SumCol(g, "Conversions")
    IN  [Platform |-> p,
         TotalSpend |-> TotalSpend, TotalRevenue |-> TotalRevenue,
         TotalImpressions |-> TotalImpressions, TotalClicks |-> TotalClicks,
         TotalConversions |-> TotalConversions,
         AvgROAS |-> FillNa(FDiv(F(TotalRevenue), F(TotalSpend))),
         AvgCTR |-> FillNa(FDiv(F(TotalClicks), F(TotalImpressions))),
         AvgCPC |-> FillNa(FDiv(F(TotalSpend), F(TotalClicks))),
         AvgConvRate |-> FillNa(FDiv(F(TotalConversions), F(TotalClicks)))]

Aggregate(frame) ==
    LET keys == GroupKeys(frame)
    IN  [i \in 1..Len(keys) |-> SummaryRow(frame, keys[i])]

\* the min-max scaled column of one KPI
Scale(summary, kpi) ==
    LET min_val == ColMin(summary, kpi)
        max_val == ColMax(summary, kpi)
        range == FSub(max_val, min_val)
    IN  [i \in 1..Len(summary) |->
            IF FEq(range, Zero) THEN Half
            ELSE IF kpi = "AvgCPC"
                 THEN FSub(One, FDiv(FSub(summary[i][kpi], min_val), range))
                 ELSE FDiv(FSub(summary[i][kpi], min_val), range)]

\* the slider weights as percentages, not divided by their sum
NormWeights_Percent(w) ==
    [norm_roas |-> FDiv(F(w.weight_roas), F(100)),
     norm_ctr |-> FDiv(F(w.weight_ctr), F(100)),
     norm_cpc |-> FDiv(F(w.weight_cpc), F(100)),
     norm_conv_rate |-> FDiv(F(w.weight_conv_rate), F(100))]

\* the sum of the four sliders, 1 when it is 0
TotalWeight(w) ==
    LET total_weight == w.weight_roas + w.weight_ctr + w.weight_cpc + w.weight_conv_rate
    IN  IF total_weight = 0 THEN 1 ELSE total_weight

\* the slider weights divided by total_weight
NormWeights(w) ==
    [norm_roas |-> FDiv(F(w.weight_roas), F(TotalWeight(w))),
     norm_ctr |-> FDiv(F(w.weight_ctr), F(TotalWeight(w))),
     norm_cpc |-> FDiv(F(w.weight_cpc), F(TotalWeight(w))),
     norm_conv_rate |-> FDiv(F(w.weight_conv_rate), F(TotalWeight(w)))]

\* the weighted PerformanceGrade of one row
Grade(roas_n, ctr_n, cpc_n, conv_n, nw) ==
    FMul(FAdd(FAdd(FAdd(FMul(roas_n, nw.norm_roas), FMul(ctr_n, nw.norm_ctr)),
                   FMul(cpc_n, nw.norm_cpc)),
              FMul(conv_n, nw.norm_conv_rate)),
         F(100))

\* the script from the sliders to PerformanceGrade, run on the cached frame
Pipeline(frame, w) ==
    LET summary == Aggregate(frame)
        roas == Scale(summary, "AvgROAS")
        ctr == Scale(summary, "AvgCTR")
        conv == Scale(summary, "AvgConvRate")
        cpc == Scale(summary, "AvgCPC")
        nw == NormWeights(w)
    IN  [i \in 1..Len(summary) |->
            [Platform |-> summary[i].Platform,
             TotalSpend |-> summary[i].TotalSpend,
             TotalRevenue |-> summary[i].TotalRevenue,
             TotalImpressions |-> summary[i].TotalImpressions,
             TotalClicks |-> summary[i].TotalClicks,
             TotalConversions |-> summary[i].TotalConversions,
             AvgROAS |-> summary[i].AvgROAS, AvgCTR |-> summary[i].AvgCTR,
             AvgCPC |-> summary[i].AvgCPC, AvgConvRate |-> summary[i].AvgConvRate,
             AvgROAS_norm |-> roas[i], AvgCTR_norm |-> ctr[i],
             AvgConvRate_norm |-> conv[i], AvgCPC_norm |-> cpc[i],
             PerformanceGrade |-> Grade(roas[i], ctr[i], cpc[i], conv[i], nw)]]

\* the columns of the ranking table
RankingRow(r) ==
    [Platform |-> r.Platform, PerformanceGrade |-> r.PerformanceGrade,
     AvgROAS |-> r.AvgROAS, AvgCTR |-> r.AvgCTR, AvgCPC |-> r.AvgCPC,
     AvgConvRate |-> r.AvgConvRate]

RECURSIVE InsertAscending(_, _)
\* r put after the rows of the sorted frame whose grade is not above its own
InsertAscending(sorted, r) ==
    IF sorted = << >> THEN <<r>>
    ELSE IF FLt(r.PerformanceGrade, Head(sorted).PerformanceGrade)
         THEN <<r>> \o sorted
         ELSE <<Head(sorted)>> \o InsertAscending(Tail(sorted), r)

RECURSIVE InsertDescending(_, _)
\* r put after the rows of the sorted frame whose grade is not below its own
InsertDescending(sorted, r) ==
    IF sorted = << >> THEN <<r>>
    ELSE IF FLt(Head(sorted).PerformanceGrade, r.PerformanceGrade)
         THEN <<r>> \o sorted
         ELSE <<Head(sorted)>> \o InsertDescending(Tail(sorted), r)

RECURSIVE SortAscending(_, _)
SortAscending(sorted, frame) ==
    IF frame = << >> THEN sorted
    ELSE SortAscending(InsertAscending(sorted, Head(frame)), Tail(frame))

RECURSIVE SortDescending(_, _)
\* the rows of frame put one by one into sorted: equal grades keep their order
SortDescending(sorted, frame) ==
    IF frame = << >> THEN sorted
    ELSE SortDescending(InsertDescending(sorted, Head(frame)), Tail(frame))

\* the ranking table sorted with the lowest grade first
RankedPlatforms_Ascending(summary) ==
    LET table == [i \in 1..Len(summary) |-> RankingRow(summary[i])]
    IN  SortAscending(<< >>, SelectSeq(table, LAMBDA r : ~IsNaN(r.PerformanceGrade)))
            \o SelectSeq(table, LAMBDA r : IsNaN(r.PerformanceGrade))

\* platform_summary[[...]].sort_values('PerformanceGrade', ascending=False):
\* highest grade first, the rows with a NaN grade last
RankedPlatforms(summary) ==
    LET table == [i \in 1..Len(summary) |-> RankingRow(summary[i])]
    IN  SortDescending(<< >>, SelectSeq(table, LAMBDA r : ~IsNaN(r.PerformanceGrade)))
            \o SelectSeq(table, LAMBDA r : IsNaN(r.PerformanceGrade))

\* the try block around load_data when the cache is cold: st.error and st.stop
\* when the file does not exist; a KeyError that nothing catches when load_data
\* reads a column the file does not have
LoadOutcome(header) ==
    IF ~header.exists THEN "st.stop"
    ELSE IF ~(LoadColumns \subseteq header.columns) THEN "KeyError"
    ELSE "loaded"

\* the script after load_data, on the frame load_data returned: the summary and
\* the ranking are drawn before the creative analysis reads its columns
Script(header, frame, w) ==
    IF "Platform" \notin header.columns
    THEN [platform_summary |-> << >>, ranked_platforms |-> << >>,
          page_end |-> "KeyError"]
    ELSE LET summary == Pipeline(frame, w)
         IN  [platform_summary |-> summary,
              ranked_platforms |-> RankedPlatforms(summary),
              page_end |-> IF CreativeColumns \subseteq header.columns
                           THEN "done" ELSE "KeyError"]

\* a session that has not run the script
NewSession ==
    [weights |-> DefaultWeights, platform_summary |-> << >>,
     ranked_platforms |-> << >>, page_end |-> "none"]

\* ======================================================= Financial Forecaster
\* the expense categories of the file, in the order the pivot index sorts them
ExpenseCategories == <<"Marketing", "Rent">>

\* A cell holds the amounts of the records of one category in one month.
\* Marketing has months of 100, months of 500 and months without a record;
\* Rent has a record of 100 in every month from its first one.
CellVals == {<< >>, <<100>>, <<500>>}

\* a category whose first record is in month k of len months (none: k = len + 1)
LateRow(k, len) == [m \in 1..len |-> IF m < k THEN << >> ELSE <<100>>]

\* every file of at most MaxMonths months
ShortFiles ==
    UNION {{[Marketing |-> a, Rent |-> LateRow(j, k)] :
               a \in [1..k -> CellVals], j \in 1..(k + 1)}
           : k \in 1..MaxMonths}

\* a row of 100 every month, but 500 in month s and no record in month g
SpikeRow(s, g) ==
    [m \in 1..LongMonths |->
        IF m = g THEN << >> ELSE IF m = s THEN <<500>> ELSE <<100>>]

\* files of LongMonths months: a steady Marketing row with at most one spike and
\* one gap, and a Rent row that starts in some month
LongFiles ==
    {[Marketing |-> SpikeRow(s, g), Rent |-> LateRow(k, LongMonths)] :
        s \in 0..LongMonths, g \in 0..LongMonths, k \in 1..LongMonths}

\* files of at most 2 months in which every record of Rent has the amount 0
ZeroFiles ==
    UNION {{[Marketing |-> a, Rent |-> [m \in 1..k |-> <<0>>]] :
               a \in [1..k -> CellVals]}
           : k \in 1..2}

\* Marketing amounts in units of 175: the base amount 3500 with its noise of 5%
BaseAmounts == {19, 20, 21}

\* the base amount times the injected factor 3.5, with the same noise
SpikeAmounts == {67, 70, 73}

\* ten months at the base amount and the month of the injection
ScenarioMonths == 1..11

\* the injected amount v in month s; of the other months, in their order, the
\* first k have the amount b1 and the rest the amount b2
ScenarioRow(s, v, k, b1, b2) ==
    [m \in ScenarioMonths |->
        IF m = s THEN <<v>>
        ELSE IF (IF m > s THEN m - 1 ELSE m) <= k THEN <<b1>> ELSE <<b2>>]

\* files of eleven months with one injected Marketing amount and a steady Rent
ScenarioFiles ==
    {[Marketing |-> ScenarioRow(s, v, k, b1, b2),
      Rent |-> [m \in ScenarioMonths |-> <<100>>]] :
        s \in ScenarioMonths, v \in SpikeAmounts, k \in 0..5,
        b1 \in BaseAmounts, b2 \in BaseAmounts}

HasRecord(file, c) == \E m \in 1..Len(file[c]) : file[c][m] # << >>

\* the files with at least one expense record
FinFiles ==
    {f \in ShortFiles \cup LongFiles \cup ZeroFiles \cup ScenarioFiles :
        \E i \in 1..Len(ExpenseCategories) : HasRecord(f, ExpenseCategories[i])}

NoAdFile == << >>
NoFinFile == [Marketing |-> << >>, Rent |-> << >>]

RECURSIVE SeqSum(_)
\* sum of a sequence of integers
SeqSum(q) == IF q = << >> THEN 0 ELSE Head(q) + SeqSum(Tail(q))

RECURSIVE SeriesSum(_)
\* Series.sum() of a sequence of doubles
SeriesSum(q) == IF q = << >> THEN Zero ELSE FAdd(Head(q), SeriesSum(Tail(q)))

\* Series.mean(): NaN for an empty series
Mean(q) == FDiv(SeriesSum(q), F(Len(q)))

RECURSIVE SumSqDev(_, _)
\* the sum of the squared deviations of q from m
SumSqDev(q, m) ==
    IF q = << >> THEN Zero
    ELSE FAdd(FMul(FSub(Head(q), m), FSub(Head(q), m)), SumSqDev(Tail(q), m))

\* the square of the population standard deviation (ddof = 0)
Var_Population(q) ==
    IF Len(q) < 1 THEN NaN ELSE FDiv(SumSqDev(q, Mean(q)), F(Len(q)))

\* the square of Series.std() (ddof = 1): NaN for fewer than 2 values
Var(q) ==
    IF Len(q) < 2 THEN NaN ELSE FDiv(SumSqDev(q, Mean(q)), F(Len(q) - 1))

\* threshold = mean + 3 * std
SigmaFactor == 3

\* the months of the file that have a record of some category, ascending
PivotColumns(file) ==
    SelectSeq([m \in 1..Len(file.Marketing) |-> m],
              LAMBDA m : \E i \in 1..Len(ExpenseCategories) :
                            file[ExpenseCategories[i]][m] # << >>)

\* the categories of the file that have a record, sorted
PivotIndex(file) == SelectSeq(ExpenseCategories, LAMBDA c : HasRecord(file, c))

\* pivot_table(index='Category', columns='Month', values='Amount', aggfunc='sum')
\* .fillna(0): one row for each category, one double for each column
PivotTable(file) ==
    LET cols == PivotColumns(file)
        idx == PivotIndex(file)
    IN  [c \in {idx[i] : i \in 1..Len(idx)} |->
            [j \in 1..Len(cols) |->
                FillNa(IF file[c][cols[j]] = << >> THEN NaN
                       ELSE F(SeqSum(file[c][cols[j]])))]]

\* row[row > 0] with every value kept: the zero months stay in the baseline
Positive_KeepZeros(row) == row

\* row[row > 0]
Positive(row) == SelectSeq(row, LAMBDA x : FLt(Zero, x))

\* mean and std of row[row > 0]; the threshold is mean + SigmaFactor * sqrt(var)
Threshold(row) == [mean |-> Mean(Positive(row)), var |-> Var(Positive(row))]

\* x > mean + 1 * std
Exceeds_OneSigma(x, t) ==
    /\ ~IsNaN(x) /\ ~IsNaN(t.mean) /\ ~IsNaN(t.var)
    /\ FLt(t.mean, x)
    /\ FLt(t.var, FMul(FSub(x, t.mean), FSub(x, t.mean)))

\* x > mean + 4 * std
Exceeds_FourSigma(x, t) ==
    /\ ~IsNaN(x) /\ ~IsNaN(t.mean) /\ ~IsNaN(t.var)
    /\ FLt(t.mean, x)
    /\ FLt(FMul(F(16), t.var), FMul(FSub(x, t.mean), FSub(x, t.mean)))

\* x > threshold, decided exactly: x > mean and (x - mean)^2 > SigmaFactor^2 * var;
\* False when the threshold is NaN
Exceeds(x, t) ==
    /\ ~IsNaN(x) /\ ~IsNaN(t.mean) /\ ~IsNaN(t.var)
    /\ FLt(t.mean, x)
    /\ FLt(FMul(F(SigmaFactor * SigmaFactor), t.var),
           FMul(FSub(x, t.mean), FSub(x, t.mean)))

\* the entries the loop body appends for category c
AnomaliesOf(pivot, cols, c) ==
    LET row == pivot[c]
        t == Threshold(row)
        anomalous_months == SelectSeq([j \in 1..Len(row) |-> j],
                                      LAMBDA j : Exceeds(row[j], t))
    IN  [i \in 1..Len(anomalous_months) |->
            [category |-> c, month |-> cols[anomalous_months[i]],
             amount |-> row[anomalous_months[i]], threshold |-> t]]

RECURSIVE AnomalyLoop(_, _, _)
\* for category in expense_pivot.index: ... anomalies.append(...)
AnomalyLoop(pivot, cols, idx) ==
    IF idx = << >> THEN << >>
    ELSE AnomaliesOf(pivot, cols, Head(idx)) \o AnomalyLoop(pivot, cols, Tail(idx))

\* ------------------------------------------------ the 12-month forecast
\* The forecast multiplies the last income by powers of 1 + rate, where rate is a
\* whole percentage: every amount of the forecast is a decimal. A decimal is
\* [neg, mag, scale] with the value (-1)^neg * mag / 100^scale; mag is a natural
\* number as its digits to the base 10000, lowest digit first, no leading zero
\* digit, so that the twelfth power of 1.2 is exact.
RECURSIVE NatOf(_)
NatOf(n) == IF n = 0 THEN << >> ELSE <<n % 10000>> \o NatOf(n \div 10000)

RECURSIVE MulCarry(_, _, _)
MulCarry(a, k, carry) ==
    IF a = << >> THEN NatOf(carry)
    ELSE LET t == Head(a) * k + carry
         IN  <<t % 10000>> \o MulCarry(Tail(a), k, t \div 10000)

\* a * k for a digit k
NatMul(a, k) == IF k = 0 THEN << >> ELSE MulCarry(a, k, 0)

RECURSIVE AddCarry(_, _, _)
AddCarry(a, b, carry) ==
    IF a = << >> /\ b = << >> THEN NatOf(carry)
    ELSE LET x == IF a = << >> THEN 0 ELSE Head(a)
             y == IF b = << >> THEN 0 ELSE Head(b)
             t == x + y + carry
         IN  <<t % 10000>> \o AddCarry(IF a = << >> THEN a ELSE Tail(a),
                                      IF b = << >> THEN b ELSE Tail(b),
                                      t \div 10000)

NatAdd(a, b) == AddCarry(a, b, 0)

RECURSIVE Strip(_)
Strip(a) ==
    IF a # << >> /\ a[Len(a)] = 0 THEN Strip(SubSeq(a, 1, Len(a) - 1)) ELSE a

RECURSIVE SubBorrow(_, _, _)
\* a - b for a >= b
SubBorrow(a, b, borrow) ==
    IF a = << >> THEN << >>
    ELSE LET y == IF b = << >> THEN 0 ELSE Head(b)
             t == Head(a) - y - borrow
         IN  <<(t + 10000) % 10000>>
                \o SubBorrow(Tail(a), IF b = << >> THEN b ELSE Tail(b),
                             IF t < 0 THEN 1 ELSE 0)

NatSub(a, b) == Strip(SubBorrow(a, b, 0))

RECURSIVE NatLt(_, _)
NatLt(a, b) ==
    IF Len(a) # Len(b) THEN Len(a) < Len(b)
    ELSE IF a = << >> THEN FALSE
    ELSE IF a[Len(a)] # b[Len(b)] THEN a[Len(a)] < b[Len(b)]
    ELSE NatLt(SubSeq(a, 1, Len(a) - 1), SubSeq(b, 1, Len(b) - 1))

RECURSIVE NatMulNat(_, _)
NatMulNat(a, b) ==
    IF b = << >> THEN << >>
    ELSE LET rest == NatMulNat(a, Tail(b))
         IN  NatAdd(NatMul(a, Head(b)),
                    IF rest = << >> THEN rest ELSE <<0>> \o rest)

Dec(neg, mag, scale) == [neg |-> neg /\ mag # << >>, mag |-> mag, scale |-> scale]

\* the double of an integer
DecOfInt(i) == Dec(i < 0, NatOf(Abs(i)), 0)

RECURSIVE Rescale(_, _)
\* the same value with s >= x.scale pairs of fractional digits
Rescale(x, s) ==
    IF x.scale >= s THEN x
    ELSE Rescale(Dec(x.neg, NatMul(x.mag, 100), x.scale + 1), s)

DecNeg(x) == Dec(~x.neg, x.mag, x.scale)

DecAdd(x, y) ==
    LET s == IF x.scale < y.scale THEN y.scale ELSE x.scale
        a == Rescale(x, s)
        b == Rescale(y, s)
    IN  IF a.neg = b.neg THEN Dec(a.neg, NatAdd(a.mag, b.mag), s)
        ELSE IF NatLt(a.mag, b.mag) THEN Dec(b.neg, NatSub(b.mag, a.mag), s)
        ELSE Dec(a.neg, NatSub(a.mag, b.mag), s)

DecSub(x, y) == DecAdd(x, DecNeg(y))

DecMul(x, y) == Dec(x.neg # y.neg, NatMulNat(x.mag, y.mag), x.scale + y.scale)

RECURSIVE DecPow(_, _)
\* x ** k
DecPow(x, k) == IF k = 0 THEN DecOfInt(1) ELSE DecMul(DecPow(x, k - 1), x)

\* x < y
DecLt(x, y) ==
    LET s == IF x.scale < y.scale THEN y.scale ELSE x.scale
        a == Rescale(x, s)
        b == Rescale(y, s)
    IN  IF a.neg # b.neg THEN a.neg
        ELSE IF a.neg THEN NatLt(b.mag, a.mag)
        ELSE NatLt(a.mag, b.mag)

\* x == y
DecEq(x, y) == ~DecLt(x, y) /\ ~DecLt(y, x)

\* the Income rows of the file: the amounts of each month
HasIncome(income) == {m \in 1..Len(income) : income[m] # << >>} # {}

\* the months of the file that have a record of either type, ascending
SummaryMonths(file, income) ==
    SelectSeq([m \in 1..Len(income) |-> m],
              LAMBDA m : \/ income[m] # << >>
                         \/ \E i \in 1..Len(ExpenseCategories) :
                                file[ExpenseCategories[i]][m] # << >>)

\* the expense of month m: the sum over the categories
RECURSIVE ExpenseOf(_, _, _)
ExpenseOf(file, m, cats) ==
    IF cats = << >> THEN 0
    ELSE SeqSum(file[Head(cats)][m]) + ExpenseOf(file, m, Tail(cats))

\* groupby(['Month', 'Type'])['Amount'].sum().unstack().fillna(0), and CashFlow
monthly_summary(file, income) ==
    LET months == SummaryMonths(file, income)
    IN  [j \in 1..Len(months) |->
            LET inc == SeqSum(income[months[j]])
                exp == ExpenseOf(file, months[j], ExpenseCategories)
            IN  [Month |-> months[j], Income |-> inc, Expense |-> exp,
                 CashFlow |-> inc - exp]]

\* the forecast covers range(1, 13)
ForecastHorizon == 12

\* the slider's whole percentage divided by 100.0
GrowthRate(percent) == Dec(percent < 0, NatOf(Abs(percent)), 1)

\* the row the loop appends for the month at index i (0-based)
ForecastRow(summary, rate, new_expense, i) ==
    LET last_income == summary[Len(summary)].Income
        last_expense == summary[Len(summary)].Expense
        forecasted_income ==
            DecMul(DecOfInt(last_income),
                   DecPow(DecAdd(DecOfInt(1), rate), i + 1))
        forecasted_expense == DecOfInt(last_expense + new_expense)
    IN  [Income |-> forecasted_income, Expense |-> forecasted_expense,
         CashFlow |-> DecSub(forecasted_income, forecasted_expense)]

\* for i, month in enumerate(forecast_dates): forecast_data.append(...)
ForecastLoop(summary, rate, new_expense) ==
    [j \in 1..ForecastHorizon |-> ForecastRow(summary, rate, new_expense, j - 1)]

\* the trend of the summary, with >= in place of >
Trend_NotLess(forecast) ==
    IF ~DecLt(forecast[Len(forecast)].CashFlow, forecast[1].CashFlow)
    THEN "upwards" ELSE "downwards"

\* 'upwards' if CashFlow.iloc[-1] > CashFlow.iloc[0] else 'downwards'
Trend(forecast) ==
    IF DecLt(forecast[1].CashFlow, forecast[Len(forecast)].CashFlow)
    THEN "upwards" ELSE "downwards"

\* the positions of the two sidebar sliders
GrowthDefault == 3
ExpenseDefault == 1500
GrowthVals == {-10, -1, 0, 1, 3, 20}
NewExpenseVals == {1500, 10000}

\* the income of the files of the anomaly scenarios: one record in every month
SteadyIncome(file) == [m \in 1..Len(file.Marketing) |-> <<1000>>]

\* two-month files for the forecast: expenses and income of each month
IncomeCells == {<< >>, <<1000>>, <<600, 300>>}
ForecastFiles ==
    {[Marketing |-> <<<<100>>, c>>, Rent |-> <<<<100>>, <<100>>>>] : c \in CellVals}
ForecastIncomes ==
    {inc \in {<<i1, i2>> : i1 \in IncomeCells, i2 \in IncomeCells} : HasIncome(inc)}

InitFinInput(files, incomes) ==
    /\ fin_csv \in files
    /\ fin_income \in incomes
    /\ Len(fin_income) = Len(fin_csv.Marketing)
    /\ fin_loaded = FALSE
    /\ expense_pivot = << >>
    /\ threshold = << >>
    /\ anomalies = << >>
    /\ sales_growth_rate = GrowthRate(GrowthDefault)
    /\ new_monthly_expense = ExpenseDefault
    /\ forecast_df = << >>
    /\ trend = ""

InitFin(files) ==
    /\ fin_csv \in files
    /\ fin_income = SteadyIncome(fin_csv)
    /\ fin_loaded = FALSE
    /\ expense_pivot = << >>
    /\ threshold = << >>
    /\ anomalies = << >>
    /\ sales_growth_rate = GrowthRate(GrowthDefault)
    /\ new_monthly_expense = ExpenseDefault
    /\ forecast_df = << >>
    /\ trend = ""

\* one run of the Financial Forecaster script with the sliders at rate and
\* new_expense: monthly summary, forecast, pivot of the expenses, anomaly loop,
\* summary. Without an Income record, or without an Expense record, line 66
\* raises KeyError and nothing of this is computed; with a single month in the
\* monthly summary, iloc[-2] of line 175 raises IndexError before the summary and
\* no trend word is shown.
FinScript(rate, new_expense) ==
    /\ HasIncome(fin_income)
    /\ PivotIndex(fin_csv) # << >>
    /\ fin_loaded' = TRUE
    /\ sales_growth_rate' = rate
    /\ new_monthly_expense' = new_expense
    /\ forecast_df' = ForecastLoop(monthly_summary(fin_csv, fin_income), rate,
                                   new_expense)
    /\ expense_pivot' = PivotTable(fin_csv)
    /\ threshold' = [c \in DOMAIN expense_pivot' |-> Threshold(expense_pivot'[c])]
    /\ anomalies' = AnomalyLoop(expense_pivot', PivotColumns(fin_csv),
                                PivotIndex(fin_csv))
    /\ trend' = IF Len(monthly_summary(fin_csv, fin_income)) < 2 THEN ""
                 ELSE Trend(forecast_df')
    /\ UNCHANGED <<fin_csv, fin_income>>
    /\ UNCHANGED <<ad_vars, cust_vars, sales_vars>>

\* the first run of the page, the sliders at their defaults
FinPageLoad ==
    /\ ~fin_loaded
    /\ FinScript(sales_growth_rate, new_monthly_expense)

\* the user moves a slider of the sidebar: the script runs again
FinSliderChange ==
    /\ fin_loaded
    /\ \E percent \in GrowthVals, e \in NewExpenseVals :
        /\ <<GrowthRate(percent), e>> # <<sales_growth_rate, new_monthly_expense>>
        /\ FinScript(GrowthRate(percent), e)

NextForecast == FinPageLoad \/ FinSliderChange

\* ====================================================== Customer Intelligence
\* random.randint(1, 20), random.randint(1, 365), random.randint(0, 5)
PurchaseFrequencies == 1..20
DaysAgo == 1..365
SupportTickets == 0..5

\* max(x, y) and min(x, y) of Python on two numbers
FMax(x, y) == IF FLt(x, y) THEN y ELSE x
FMin(x, y) == IF FLt(y, x) THEN y ELSE x

\* int(x) of a double that is not negative
IntOf(x) == x.n \div x.d

\* the simulated health score
HealthScore(purchase_frequency, last_purchase_days_ago, support_tickets) ==
    LET recency_score ==
            FMax(Zero, FSub(F(100), FDiv(F(last_purchase_days_ago), Frac(365, 100))))
        frequency_score == FMin(F(100), F(purchase_frequency * 10))
        support_score == FMax(Zero, F(100 - support_tickets * 20))
    IN  IntOf(FAdd(FAdd(FMul(Frac(5, 10), recency_score),
                      FMul(Frac(3, 10), frequency_score)),
                 FMul(Frac(2, 10), support_score)))

\* the churn risk segmentation of the generator
ChurnRisk(health_score) ==
    IF health_score < 45 THEN "High"
    ELSE IF 45 <= health_score /\ health_score < 75 THEN "Medium"
    ELSE "Low"

\* the row the generator appends for one customer
CustomerRow(purchase_frequency, last_purchase_days_ago, support_tickets) ==
    LET health_score ==
            HealthScore(purchase_frequency, last_purchase_days_ago, support_tickets)
    IN  [PurchaseFrequency |-> purchase_frequency,
         SupportTickets |-> support_tickets,
         HealthScore |-> health_score,
         ChurnRisk |-> ChurnRisk(health_score)]

\* data/customer_intelligence_data.csv before the generator has run
NoCustFile == << >>

SeaGreen == "background-color: #2E8B57; color: white"
GoldenRod == "background-color: #DAA520; color: white"
FireBrick == "background-color: #B22222; color: white"

get_color_for_score(score) ==
    IF score > 75 THEN SeaGreen
    ELSE IF score > 45 THEN GoldenRod
    ELSE FireBrick

RECURSIVE Unique(_)
\* Series.unique(): the values in the order of their first row
Unique(q) ==
    IF q = << >> THEN << >>
    ELSE <<Head(q)>> \o Unique(SelectSeq(Tail(q), LAMBDA x : x # Head(q)))

\* the options of the churn-risk selectbox
RiskOptions(frame) ==
    <<"All">> \o Unique([i \in 1..Len(frame) |-> frame[i].ChurnRisk])

\* the rows of the selected churn risk, or all of them
Filtered(frame, risk) ==
    IF risk # "All" THEN SelectSeq(frame, LAMBDA r : r.ChurnRisk = risk)
    ELSE frame

RECURSIVE InsertByScore(_, _)
\* r put after the rows of the sorted frame whose score is not below its own
InsertByScore(sorted, r) ==
    IF sorted = << >> THEN <<r>>
    ELSE IF Head(sorted).HealthScore < r.HealthScore THEN <<r>> \o sorted
    ELSE <<Head(sorted)>> \o InsertByScore(Tail(sorted), r)

RECURSIVE SortByScore(_, _)
SortByScore(sorted, frame) ==
    IF frame = << >> THEN sorted
    ELSE SortByScore(InsertByScore(sorted, Head(frame)), Tail(frame))

\* the scorecard: the rows by descending health score, each with the colour of
\* its score
Styled(frame) ==
    LET rows == SortByScore(<< >>, frame)
    IN  [i \in 1..Len(rows) |->
            [HealthScore |-> rows[i].HealthScore, ChurnRisk |-> rows[i].ChurnRisk,
             color |-> get_color_for_score(rows[i].HealthScore)]]

InitCust(files) ==
    /\ cust_csv \in files
    /\ cust_loaded = FALSE
    /\ cust_df = << >>
    /\ selected_risk = "All"
    /\ filtered_df = << >>
    /\ styled_df = << >>

\* generate_customer_data.py runs and writes the file, here with the row of one
\* customer
GenerateCustomerData ==
    /\ cust_csv = NoCustFile
    /\ \E purchase_frequency \in PurchaseFrequencies,
          last_purchase_days_ago \in DaysAgo, support_tickets \in SupportTickets :
          cust_csv' = <<CustomerRow(purchase_frequency, last_purchase_days_ago,
                                    support_tickets)>>
    /\ UNCHANGED <<cust_loaded, cust_df, selected_risk, filtered_df, styled_df>>
    /\ UNCHANGED <<ad_vars, fin_vars, sales_vars>>

\* first run of the Customer Intelligence page on the generated file (without
\* the file the page shows an error and stops at once)
CustPageLoad ==
    /\ cust_csv # NoCustFile
    /\ ~cust_loaded
    /\ cust_loaded' = TRUE
    /\ cust_df' = cust_csv
    /\ selected_risk' = RiskOptions(cust_df')[1]
    /\ filtered_df' = Filtered(cust_df', selected_risk')
    /\ styled_df' = Styled(filtered_df')
    /\ UNCHANGED cust_csv
    /\ UNCHANGED <<ad_vars, fin_vars, sales_vars>>

\* a churn risk is chosen in the selectbox: the script reruns
SelectRisk ==
    /\ cust_loaded
    /\ \E i \in 1..Len(RiskOptions(cust_df)) :
          selected_risk' = RiskOptions(cust_df)[i]
    /\ filtered_df' = Filtered(cust_df, selected_risk')
    /\ styled_df' = Styled(filtered_df')
    /\ UNCHANGED <<cust_csv, cust_loaded, cust_df>>
    /\ UNCHANGED <<ad_vars, fin_vars, sales_vars>>

NextCust == GenerateCustomerData \/ CustPageLoad \/ SelectRisk

InitAdInput(files, headers) ==
    /\ ad_csv \in files
    /\ ad_header \in headers
    /\ loaded = FALSE
    /\ df = << >>
    /\ weights = DefaultWeights
    /\ platform_summary = << >>
    /\ ranked_platforms = << >>
    /\ page_end = "none"
    /\ peer = NewSession

InitAd(files) == InitAdInput(files, {AdHeader})

\* first run of the page in the session: load_data reads the file unless the
\* cache holds its result, then the script runs to its end
PageLoad ==
    /\ page_end = "none"
    /\ IF loaded \/ LoadOutcome(ad_header) = "loaded"
       THEN /\ loaded' = TRUE
            /\ df' = (IF loaded THEN df ELSE load_data(ad_csv))
            /\ \E run \in {Script(ad_header, df', weights)} :
                  /\ platform_summary' = run.platform_summary
                  /\ ranked_platforms' = run.ranked_platforms
                  /\ page_end' = run.page_end
       ELSE /\ page_end' = LoadOutcome(ad_header)
            /\ UNCHANGED <<loaded, df, platform_summary, ranked_platforms>>
    /\ UNCHANGED <<ad_csv, ad_header, weights, peer>>
    /\ UNCHANGED <<fin_vars, cust_vars, sales_vars>>

\* a slider is moved, and the page keeps the results of the earlier weights
SetSlider_KeepsResults(vals) ==
    /\ loaded
    /\ page_end # "none"
    /\ \E s \in Sliders, v \in vals : weights' = [weights EXCEPT ![s] = v]
    /\ UNCHANGED <<ad_csv, ad_header, loaded, df, peer, platform_summary,
                   ranked_platforms, page_end>>
    /\ UNCHANGED <<fin_vars, cust_vars, sales_vars>>

\* a slider is moved to a position of vals: the script reruns, load_data hits
\* the cache
SetSlider(vals) ==
    /\ loaded
    /\ page_end # "none"
    /\ \E s \in Sliders, v \in vals :
          /\ weights' = [weights EXCEPT ![s] = v]
          /\ \E run \in {Script(ad_header, df, weights')} :
                /\ platform_summary' = run.platform_summary
                /\ ranked_platforms' = run.ranked_platforms
                /\ page_end' = run.page_end
    /\ UNCHANGED <<ad_csv, ad_header, loaded, df, peer>>
    /\ UNCHANGED <<fin_vars, cust_vars, sales_vars>>

SliderChange == SetSlider(SliderVals)

ScenarioSliderChange == SetSlider(ScenarioSliderVals)

\* the session of w and the results of its run
Session(w, run) ==
    [weights |-> w, platform_summary |-> run.platform_summary,
     ranked_platforms |-> run.ranked_platforms, page_end |-> run.page_end]

\* first run of the page in the second session
PeerPageLoad ==
    /\ peer.page_end = "none"
    /\ IF loaded \/ LoadOutcome(ad_header) = "loaded"
       THEN /\ loaded' = TRUE
            /\ df' = (IF loaded THEN df ELSE load_data(ad_csv))
            /\ peer' = Session(peer.weights, Script(ad_header, df', peer.weights))
       ELSE /\ peer' = [peer EXCEPT !.page_end = LoadOutcome(ad_header)]
            /\ UNCHANGED <<loaded, df>>
    /\ UNCHANGED <<ad_csv, ad_header, weights, platform_summary, ranked_platforms,
                   page_end>>
    /\ UNCHANGED <<fin_vars, cust_vars, sales_vars>>

\* the rerun of the second session with its results kept in the variables of
\* the first one
PeerSliderChange_SharedResults ==
    /\ loaded
    /\ peer.page_end # "none"
    /\ \E s \in Sliders, v \in SliderVals :
          /\ peer' = Session([peer.weights EXCEPT ![s] = v],
                             Script(ad_header, df, [peer.weights EXCEPT ![s] = v]))
          /\ platform_summary' = peer'.platform_summary
          /\ ranked_platforms' = peer'.ranked_platforms
    /\ UNCHANGED <<ad_csv, ad_header, loaded, df, weights, page_end>>
    /\ UNCHANGED <<fin_vars, cust_vars, sales_vars>>

\* a slider is moved in the second session
PeerSliderChange ==
    /\ loaded
    /\ peer.page_end # "none"
    /\ \E s \in Sliders, v \in SliderVals :
          peer' = Session([peer.weights EXCEPT ![s] = v],
                          Script(ad_header, df, [peer.weights EXCEPT ![s] = v]))
    /\ UNCHANGED <<ad_csv, ad_header, loaded, df, weights, platform_summary,
                   ranked_platforms, page_end>>
    /\ UNCHANGED <<fin_vars, cust_vars, sales_vars>>

NextAd == PageLoad \/ SliderChange

NextScenario == PageLoad \/ ScenarioSliderChange

NextSessions == PageLoad \/ SliderChange \/ PeerPageLoad \/ PeerSliderChange

\* ============================================================ sales dashboards
\* app.py and 1_Operations_Hub.py are two versions of the same sales dashboard:
\* the same load, the same sidebar and the same filter; only app.py checks for
\* an empty selection before it computes the KPIs.
SalesPages == {"app.py", "1_Operations_Hub.py"}

\* The generators of the repository write dates as %Y-%m-%d, so a parsed
\* OrderDate is the midnight of a day: a day number.
OrderDates == {1, 2, 3}
Categories == {"Apparel", "Gear"}
MarketingSources == {"Email", "Social"}

\* one record of innovategear_sales_data.csv
SalesRow(d, c, s) ==
    [OrderDate |-> d, Category |-> c, MarketingSource |-> s, Quantity |-> d,
     Price |-> IF c = "Gear" THEN 20 ELSE 10,
     CustomerName |-> IF s = "Email" THEN "Ann" ELSE "Bob",
     SatisfactionScore |-> IF c = "Gear" THEN 5 ELSE 1 + d]

SalesRows == {SalesRow(d, c, s) : d \in OrderDates, c \in Categories, s \in MarketingSources}

\* the files of two records, in date order
SalesFiles ==
    {f \in {<<r1, r2>> : r1 \in SalesRows, r2 \in SalesRows} :
        f[1].OrderDate <= f[2].OrderDate}

NoSalesFile == << >>

\* load_data: the records with their row label and TotalRevenue = Quantity * Price
sales_load_data(file) ==
    [i \in 1..Len(file) |->
        [index |-> i, OrderDate |-> file[i].OrderDate, Category |-> file[i].Category,
         MarketingSource |-> file[i].MarketingSource, Quantity |-> file[i].Quantity,
         Price |-> file[i].Price, CustomerName |-> file[i].CustomerName,
         SatisfactionScore |-> file[i].SatisfactionScore,
         TotalRevenue |-> file[i].Quantity * file[i].Price]]

ColumnSet(frame, col) == {frame[i][col] : i \in 1..Len(frame)}

\* df['OrderDate'].min().date() and df['OrderDate'].max().date()
min_date(frame) ==
    CHOOSE d \in ColumnSet(frame, "OrderDate") :
        \A e \in ColumnSet(frame, "OrderDate") : d <= e
max_date(frame) ==
    CHOOSE d \in ColumnSet(frame, "OrderDate") :
        \A e \in ColumnSet(frame, "OrderDate") : e <= d

\* df['Category'].unique() and df['MarketingSource'].unique()
all_categories(frame) == ColumnSet(frame, "Category")
all_sources(frame) == ColumnSet(frame, "MarketingSource")

\* what st.date_input returns for a range between min_value and max_value: both
\* dates, or the first date alone while the user has not picked the second
DateInputs(frame) ==
    LET days == min_date(frame)..max_date(frame)
    IN  {<<a>> : a \in days} \cup {r \in days \X days : r[1] <= r[2]}

\* the mask of the filter with an exclusive end date
InFilter_EndExclusive(row, start_date, end_date, categories, sources) ==
    /\ row.OrderDate >= start_date
    /\ row.OrderDate < end_date
    /\ row.Category \in categories
    /\ row.MarketingSource \in sources

\* (OrderDate >= start) & (OrderDate <= end) & Category.isin & MarketingSource.isin
InFilter(row, start_date, end_date, categories, sources) ==
    /\ row.OrderDate >= start_date
    /\ row.OrderDate <= end_date
    /\ row.Category \in categories
    /\ row.MarketingSource \in sources

\* filtered_df = df[mask]
FilterFrame(frame, start_date, end_date, categories, sources) ==
    SelectSeq(frame,
              LAMBDA row : InFilter(row, start_date, end_date, categories, sources))

\* mean() of an integer column: NaN for an empty frame
MeanCol(frame, col) == FDiv(F(SumCol(frame, col)), F(Len(frame)))

\* total_revenue, total_sales, avg_satisfaction, unique_customers
SalesKpis(frame) ==
    [total_revenue |-> SumCol(frame, "TotalRevenue"),
     total_sales |-> SumCol(frame, "Quantity"),
     avg_satisfaction |-> MeanCol(frame, "SatisfactionScore"),
     unique_customers |-> Cardinality(ColumnSet(frame, "CustomerName"))]

\* the KPIs and filtered_df of a run that did not compute them
NoKpis == [computed |-> "none"]
NoFrame == "none"

\* One run of the dashboard script below the data loading. An incomplete date range
\* cannot be unpacked into start_date, end_date: ValueError ends the run in the
\* sidebar. app.py computes the KPIs and the charts only for a non-empty
\* filtered_df and shows the warning otherwise; 1_Operations_Hub.py computes
\* them always.
SalesScript(page, frame, dates, categories, sources) ==
    IF Len(dates) # 2
    THEN [filtered_df |-> NoFrame, kpis |-> NoKpis, warning |-> FALSE,
          end |-> "ValueError"]
    ELSE LET filtered == FilterFrame(frame, dates[1], dates[2], categories, sources)
         IN  IF page = "app.py" /\ filtered = << >>
             THEN [filtered_df |-> filtered, kpis |-> NoKpis, warning |-> TRUE,
                   end |-> "done"]
             ELSE [filtered_df |-> filtered, kpis |-> SalesKpis(filtered),
                   warning |-> FALSE, end |-> "done"]

InitSales(files, pages) ==
    /\ sales_csv \in files
    /\ sales_page \in pages
    /\ sales_df = << >>
    /\ date_input = << >>
    /\ selected_categories = {}
    /\ selected_sources = {}
    /\ sales_filtered_df = NoFrame
    /\ sales_kpis = NoKpis
    /\ sales_warning = FALSE
    /\ sales_end = "none"

\* the run of the script with the widgets at dates, categories and sources
SalesRun(frame, dates, categories, sources) ==
    \E run \in {SalesScript(sales_page, frame, dates, categories, sources)} :
        /\ sales_df' = frame
        /\ date_input' = dates
        /\ selected_categories' = categories
        /\ selected_sources' = sources
        /\ sales_filtered_df' = run.filtered_df
        /\ sales_kpis' = run.kpis
        /\ sales_warning' = run.warning
        /\ sales_end' = run.end
        /\ UNCHANGED <<sales_csv, sales_page>>
        /\ UNCHANGED <<ad_vars, fin_vars, cust_vars>>

\* the first run: the file is loaded, the widgets are at their defaults (the
\* whole date range, every category, every source)
SalesPageLoad ==
    /\ sales_end = "none"
    /\ sales_csv # NoSalesFile
    /\ LET frame == sales_load_data(sales_csv)
       IN  SalesRun(frame, <<min_date(frame), max_date(frame)>>,
                    all_categories(frame), all_sources(frame))

\* the user picks dates in the date range widget
SelectDates ==
    /\ sales_end # "none"
    /\ \E dates \in DateInputs(sales_df) :
        /\ dates # date_input
        /\ SalesRun(sales_df, dates, selected_categories, selected_sources)

\* the user changes the category multiselect (rendered after the date range)
SelectCategories ==
    /\ sales_end = "done"
    /\ \E categories \in SUBSET all_categories(sales_df) :
        /\ categories # selected_categories
        /\ SalesRun(sales_df, date_input, categories, selected_sources)

\* the user changes the marketing source multiselect
SelectSources ==
    /\ sales_end = "done"
    /\ \E sources \in SUBSET all_sources(sales_df) :
        /\ sources # selected_sources
        /\ SalesRun(sales_df, date_input, selected_categories, sources)

NextSales == SalesPageLoad \/ SelectDates \/ SelectCategories \/ SelectSources

\* the page with its sliders, on the files with one row for each platform
Spec ==
    InitAd(DailyFiles) /\ InitFin({NoFinFile}) /\ InitCust({NoCustFile})
        /\ InitSales({NoSalesFile}, {"app.py"})
        /\ [][NextAd]_vars

\* the first run of the page, on every file of at most MaxRecords rows
SpecAdData ==
    InitAd(AdFiles) /\ InitFin({NoFinFile}) /\ InitCust({NoCustFile})
        /\ InitSales({NoSalesFile}, {"app.py"})
        /\ [][PageLoad]_vars

\* the page on the files of PageFiles, with every header and the scenario sliders
SpecScenario ==
    InitAdInput(PageFiles, AdHeaders) /\ InitFin({NoFinFile})
        /\ InitCust({NoCustFile})
        /\ InitSales({NoSalesFile}, {"app.py"})
        /\ [][NextScenario]_vars

\* two sessions of the page on the files of PageFiles
SpecSessions ==
    InitAd(PageFiles) /\ InitFin({NoFinFile}) /\ InitCust({NoCustFile})
        /\ InitSales({NoSalesFile}, {"app.py"})
        /\ [][NextSessions]_vars

\* the run of the Financial Forecaster page, on every file of FinFiles
SpecFin ==
    InitAd({NoAdFile}) /\ InitFin(FinFiles) /\ InitCust({NoCustFile})
        /\ InitSales({NoSalesFile}, {"app.py"})
        /\ [][FinPageLoad]_vars

\* the Financial Forecaster page and its two sliders, on the two-month files
SpecForecast ==
    InitAd({NoAdFile}) /\ InitFinInput(ForecastFiles, ForecastIncomes)
        /\ InitCust({NoCustFile})
        /\ InitSales({NoSalesFile}, {"app.py"})
        /\ [][NextForecast]_vars

\* the sales dashboard in both versions, on the two-record files
SpecSales ==
    InitAd({NoAdFile}) /\ InitFin({NoFinFile}) /\ InitCust({NoCustFile})
        /\ InitSales(SalesFiles, SalesPages)
        /\ [][NextSales]_vars

\* the customer data generator, then the Customer Intelligence page on the file
\* it wrote
SpecCust ==
    InitAd({NoAdFile}) /\ InitFin({NoFinFile}) /\ InitCust({NoCustFile})
        /\ InitSales({NoSalesFile}, {"app.py"})
        /\ [][NextCust]_vars

\* ================================================== properties: Ad Performance
Kpis == {"AvgROAS", "AvgCTR", "AvgConvRate", "AvgCPC"}
NormOf(kpi) ==
    CASE kpi = "AvgROAS" -> "AvgROAS_norm"
      [] kpi = "AvgCTR" -> "AvgCTR_norm"
      [] kpi = "AvgConvRate" -> "AvgConvRate_norm"
      [] kpi = "AvgCPC" -> "AvgCPC_norm"

Rows == 1..Len(platform_summary)

\* x is a double in [lo, hi]
InRange(x, lo, hi) == IsFinite(x) /\ FLe(F(lo), x) /\ FLe(x, F(hi))

\* C1: every ratio column of the loaded frame is a finite number, and it is 0
\* in every row whose denominator column is 0, whatever the numerator.
C1_RecordRatioZeroOnZeroDenominator ==
    loaded =>
        /\ Len(df) = Len(ad_csv)
        /\ \A i \in 1..Len(df) :
              /\ IsFinite(df[i].ROAS) /\ IsFinite(df[i].CTR)
              /\ IsFinite(df[i].CPC) /\ IsFinite(df[i].ConversionRate)
              /\ ad_csv[i].Spend = 0 => df[i].ROAS = Zero
              /\ ad_csv[i].Impressions = 0 => df[i].CTR = Zero
              /\ ad_csv[i].Clicks = 0 => df[i].CPC = Zero
              /\ ad_csv[i].Clicks = 0 => df[i].ConversionRate = Zero
              /\ ad_csv[i].Spend # 0 =>
                    df[i].ROAS.n * ad_csv[i].Spend = ad_csv[i].Revenue * df[i].ROAS.d
              /\ ad_csv[i].Clicks # 0 =>
                    df[i].CPC.n * ad_csv[i].Clicks = ad_csv[i].Spend * df[i].CPC.d

\* a loaded record with a positive numerator over 0 and one with 0 over 0
C1_Witness ==
    /\ loaded
    /\ \E i \in 1..Len(df) :
          ad_csv[i].Spend = 0 /\ ad_csv[i].Revenue > 0 /\ df[i].ROAS = Zero
    /\ \E i \in 1..Len(df) :
          ad_csv[i].Clicks = 0 /\ ad_csv[i].Conversions = 0
            /\ df[i].ConversionRate = Zero

\* C2: in every row of the platform summary each aggregate ratio is 0 when its
\* summed denominator is 0, and no KPI, normalized score or PerformanceGrade of
\* the summary is infinite or NaN.
C2_AggregateRatioZeroOnZeroDenominator ==
    \A i \in Rows :
        LET r == platform_summary[i]
        IN  /\ r.TotalSpend = 0 => r.AvgROAS = Zero
            /\ r.TotalImpressions = 0 => r.AvgCTR = Zero
            /\ r.TotalClicks = 0 => r.AvgCPC = Zero
            /\ r.TotalClicks = 0 => r.AvgConvRate = Zero
            /\ \A k \in Kpis : IsFinite(r[k]) /\ IsFinite(r[NormOf(k)])
            /\ IsFinite(r.PerformanceGrade)

\* C3: a KPI with the same value in every row of the summary has the normalized
\* score 0.5 in every row.
C3_EqualValuesScoreHalf ==
    \A k \in Kpis :
        (\A i, j \in Rows : platform_summary[i][k] = platform_summary[j][k])
            => \A i \in Rows : platform_summary[i][NormOf(k)] = Half

\* C4: every normalized score is in [0,1]; when the values of a KPI differ, the
\* rows with the largest value score 1 and those with the smallest 0, and the
\* other way round for AvgCPC.
C4_ScoresInUnitInterval ==
    \A k \in Kpis : \A i \in Rows :
        LET r == platform_summary[i]
            isMin == \A j \in Rows : ~FLt(platform_summary[j][k], r[k])
            isMax == \A j \in Rows : ~FLt(r[k], platform_summary[j][k])
            differ == \E j \in Rows : platform_summary[j][k] # r[k]
        IN  /\ InRange(r[NormOf(k)], 0, 1)
            /\ differ /\ isMax => r[NormOf(k)] = (IF k = "AvgCPC" THEN Zero ELSE One)
            /\ differ /\ isMin => r[NormOf(k)] = (IF k = "AvgCPC" THEN One ELSE Zero)

AllWeightsZero == \A s \in Sliders : weights[s] = 0

\* C5: with the four sliders at 0 the PerformanceGrade of every row is 0.
C5_ZeroWeightsGradeZero ==
    AllWeightsZero => \A i \in Rows : platform_summary[i].PerformanceGrade = Zero

\* C6: the PerformanceGrade of every row is a number in [0,100].
C6_GradeInRange ==
    \A i \in Rows : InRange(platform_summary[i].PerformanceGrade, 0, 100)

RECURSIVE SumOver(_, _, _)
\* the sum of column col of the rows of file whose index is in I
SumOver(file, col, I) ==
    IF I = {} THEN 0
    ELSE LET i == CHOOSE j \in I : TRUE
         IN  file[i][col] + SumOver(file, col, I \ {i})

RecordsOf(p) == {i \in 1..Len(ad_csv) : ad_csv[i].Platform = p}

\* C7: the summary has one row for each platform of the records; the totals of
\* a row are the sums over the records of its platform; an aggregate ratio
\* whose summed denominator is not 0 is the quotient of the two totals.
C7_SummaryIsRatioOfSums ==
    loaded =>
        /\ {platform_summary[i].Platform : i \in Rows}
              = {ad_csv[i].Platform : i \in 1..Len(ad_csv)}
        /\ \A i, j \in Rows :
              platform_summary[i].Platform = platform_summary[j].Platform => i = j
        /\ \A i \in Rows :
              LET r == platform_summary[i]
                  I == RecordsOf(r.Platform)
              IN  /\ r.TotalSpend = SumOver(ad_csv, "Spend", I)
                  /\ r.TotalRevenue = SumOver(ad_csv, "Revenue", I)
                  /\ r.TotalImpressions = SumOver(ad_csv, "Impressions", I)
                  /\ r.TotalClicks = SumOver(ad_csv, "Clicks", I)
                  /\ r.TotalConversions = SumOver(ad_csv, "Conversions", I)
                  /\ r.TotalSpend # 0 =>
                        /\ IsFinite(r.AvgROAS)
                        /\ r.AvgROAS.n * r.TotalSpend = r.TotalRevenue * r.AvgROAS.d
                  /\ r.TotalImpressions # 0 =>
                        /\ IsFinite(r.AvgCTR)
                        /\ r.AvgCTR.n * r.TotalImpressions = r.TotalClicks * r.AvgCTR.d
                  /\ r.TotalClicks # 0 =>
                        /\ IsFinite(r.AvgCPC) /\ IsFinite(r.AvgConvRate)
                        /\ r.AvgCPC.n * r.TotalClicks = r.TotalSpend * r.AvgCPC.d
                        /\ r.AvgConvRate.n * r.TotalClicks
                              = r.TotalConversions * r.AvgConvRate.d

\* a platform with two records whose ratio of sums is not the mean of their ratios
C7_Witness ==
    /\ loaded
    /\ \E i \in Rows :
          LET r == platform_summary[i]
              g == OfPlatform(df, r.Platform)
          IN  /\ Len(g) = 2
              /\ g[1].Spend # 0 /\ g[2].Spend # 0
              /\ r.AvgROAS # MeanF(g, "ROAS")
              /\ r.AvgROAS.n * r.TotalSpend = r.TotalRevenue * r.AvgROAS.d

\* the row of platform p in a frame with a Platform column
RowOf(frame, p) ==
    frame[CHOOSE i \in 1..Len(frame) : frame[i].Platform = p]

\* C12: on the dataset of platform A (Spend 100, Revenue 400, Impressions 1000,
\* Clicks 50, Conversions 5) and platform B (200, 300, 2000, 80, 4), with the
\* weights ROAS 100 and 0 for the others, the PerformanceGrade of A is 100, that
\* of B is 0, and the ranking table lists A before B.
C12_ScenarioGradesAndRanking ==
    (platform_summary # << >> /\ ad_csv \in ScenarioAdFiles
        /\ weights = ScenarioWeights) =>
        /\ Len(platform_summary) = 2
        /\ RowOf(platform_summary, "Meta Ads").AvgROAS = F(4)
        /\ RowOf(platform_summary, "Google Ads").AvgROAS = Frac(3, 2)
        /\ RowOf(platform_summary, "Meta Ads").PerformanceGrade = F(100)
        /\ RowOf(platform_summary, "Google Ads").PerformanceGrade = F(0)
        /\ Len(ranked_platforms) = 2
        /\ ranked_platforms[1].Platform = "Meta Ads"
        /\ ranked_platforms[1].PerformanceGrade = F(100)
        /\ ranked_platforms[2].Platform = "Google Ads"
        /\ ranked_platforms[2].PerformanceGrade = F(0)

\* the page has run to its end with all the weight on ROAS; the summary lists
\* B first, the ranking lists A first
C12_Witness ==
    /\ page_end = "done"
    /\ ad_csv \in ScenarioAdFiles
    /\ weights = ScenarioWeights
    /\ platform_summary[1].Platform = "Google Ads"
    /\ ranked_platforms[1].Platform = "Meta Ads"

\* the change of one column of one record that raises one KPI of the record's
\* platform and leaves its other KPIs alone: more Revenue raises AvgROAS, more
\* Conversions raise AvgConvRate, fewer Impressions raise AvgCTR
RaisedKpi == [Revenue |-> "AvgROAS", Conversions |-> "AvgConvRate",
              Impressions |-> "AvgCTR"]
ColumnVals == [Revenue |-> RevenueVals, Conversions |-> ConversionsVals,
               Impressions |-> ImpressionsVals]

\* the summary the page computes from the file with column col of record r set to v
SummaryWith(r, col, v) ==
    Pipeline(load_data([ad_csv EXCEPT ![r][col] = v]), weights)

\* the row of the changed summary has a higher value of kpi than the row of the
\* page, and its normalized score and its grade are not below those of the page
NotLowered(old, new, kpi) ==
    FLt(old[kpi], new[kpi]) =>
        /\ FLe(old[NormOf(kpi)], new[NormOf(kpi)])
        /\ FLe(old.PerformanceGrade, new.PerformanceGrade)

\* C13: raising the value of a higher-is-better KPI (AvgROAS, AvgCTR,
\* AvgConvRate) of one platform row, with the other rows, the other KPIs of the
\* row and the weights unchanged, lowers neither the normalized score of the row
\* for that KPI nor its PerformanceGrade.
C13_RaisedKpiNeverLowersScore ==
    loaded =>
        \A r \in 1..Len(ad_csv), col \in DOMAIN RaisedKpi :
            \A v \in ColumnVals[col] :
                NotLowered(RowOf(platform_summary, ad_csv[r].Platform),
                           RowOf(SummaryWith(r, col, v), ad_csv[r].Platform),
                           RaisedKpi[col])

\* C15: after any sequence of slider changes, the summary, the normalized
\* scores, the grades and the ranking the page shows are those computed from the
\* file and the current slider positions alone.
C15_GradesFromCurrentWeights ==
    (loaded /\ page_end # "none" /\ "Platform" \in ad_header.columns) =>
        /\ platform_summary = Pipeline(load_data(ad_csv), weights)
        /\ ranked_platforms = RankedPlatforms(Pipeline(load_data(ad_csv), weights))

\* three sliders have been moved, one after the other, and the grades differ
C15_Witness ==
    /\ page_end = "done"
    /\ weights.weight_roas = 0
    /\ weights.weight_ctr = 100
    /\ weights.weight_cpc = 0
    /\ weights.weight_conv_rate = 15
    /\ platform_summary # Pipeline(load_data(ad_csv), DefaultWeights)

ExpectedColumns == LoadColumns \cup {"Platform"} \cup CreativeColumns

\* C17: when the file is absent or lacks a column the page reads, the run ends in
\* a failure (the error message of the missing file, or an exception) and the
\* page has computed no summary, score or ranking.
C17_FailureBeforeAnyResult ==
    (page_end # "none"
        /\ (~ad_header.exists \/ ~(ExpectedColumns \subseteq ad_header.columns))) =>
        /\ page_end = (IF ad_header.exists THEN "KeyError" ELSE "st.stop")
        /\ platform_summary = << >>
        /\ ranked_platforms = << >>

\* the sum of the four slider positions
WeightSum == weights.weight_roas + weights.weight_ctr + weights.weight_cpc
                + weights.weight_conv_rate

\* 100 * (sum over the KPIs of slider position * normalized score) of a row
WeightedScoreSum(row) ==
    FMul(F(100),
         FAdd(FAdd(FMul(F(weights.weight_roas), row.AvgROAS_norm),
                   FMul(F(weights.weight_ctr), row.AvgCTR_norm)),
              FAdd(FMul(F(weights.weight_cpc), row.AvgCPC_norm),
                   FMul(F(weights.weight_conv_rate), row.AvgConvRate_norm))))

\* C19: when a slider is above 0, each normalized weight is the slider position
\* divided by the sum of the four positions, lies in [0, 1], and the four sum
\* to 1; the grade of a row is 100 times the sum of normalized score times
\* normalized weight.
C19_WeightsRenormalized ==
    (page_end = "done" /\ WeightSum > 0) =>
        LET nw == NormWeights(weights)
        IN  /\ nw.norm_roas = Frac(weights.weight_roas, WeightSum)
            /\ nw.norm_ctr = Frac(weights.weight_ctr, WeightSum)
            /\ nw.norm_cpc = Frac(weights.weight_cpc, WeightSum)
            /\ nw.norm_conv_rate = Frac(weights.weight_conv_rate, WeightSum)
            /\ \A k \in DOMAIN nw : InRange(nw[k], 0, 1)
            /\ FAdd(FAdd(nw.norm_roas, nw.norm_ctr),
                    FAdd(nw.norm_cpc, nw.norm_conv_rate)) = One
            /\ \A i \in Rows :
                  FMul(platform_summary[i].PerformanceGrade, F(WeightSum))
                      = WeightedScoreSum(platform_summary[i])

\* the sliders sum to 130, and a grade is neither 0 nor 100
C19_Witness ==
    /\ page_end = "done"
    /\ weights = [weight_roas |-> 100, weight_ctr |-> 15, weight_cpc |-> 0,
                  weight_conv_rate |-> 15]
    /\ \E i \in Rows :
          /\ FLt(Zero, platform_summary[i].PerformanceGrade)
          /\ FLt(platform_summary[i].PerformanceGrade, F(100))

\* ============================================ properties: Financial Forecaster
PivotRow(c) == expense_pivot[c]

\* the columns of category c whose total is not 0
NonZeroCols(c) == {j \in DOMAIN PivotRow(c) : PivotRow(c)[j] # Zero}

RECURSIVE IntSum(_, _)
\* the sum of the integers f[j], j in J
IntSum(f, J) ==
    IF J = {} THEN 0
    ELSE LET j == CHOOSE x \in J : TRUE IN f[j] + IntSum(f, J \ {j})

Count(c) == Cardinality(NonZeroCols(c))
Total(c) == IntSum([j \in DOMAIN PivotRow(c) |-> PivotRow(c)[j].n], NonZeroCols(c))
\* the sum over the nonzero totals x of (Count * x - Total)^2
SqDev(c) ==
    IntSum([j \in DOMAIN PivotRow(c) |->
               (Count(c) * PivotRow(c)[j].n - Total(c))
                 * (Count(c) * PivotRow(c)[j].n - Total(c))],
           NonZeroCols(c))

\* the total x is above mean + 3 * sample standard deviation of the nonzero totals
AboveThreeSigma(c, x) ==
    /\ Count(c) >= 2
    /\ Count(c) * x > Total(c)
    /\ (Count(c) - 1) * (Count(c) * x - Total(c)) * (Count(c) * x - Total(c))
          > 9 * SqDev(c)

\* the anomaly list has an entry for column j of category c
Reported(c, j) ==
    \E i \in 1..Len(anomalies) :
        /\ anomalies[i].category = c
        /\ anomalies[i].month = PivotColumns(fin_csv)[j]

ReportedCols(c) == {j \in DOMAIN PivotRow(c) : Reported(c, j)}

C9_FewerThanTwoNoAnomaly ==
    fin_loaded =>
        \A c \in DOMAIN expense_pivot : Count(c) < 2 => ReportedCols(c) = {}

\* a category with one nonzero total and a category with none, over several months
C9_Witness ==
    /\ fin_loaded
    /\ \E c \in DOMAIN expense_pivot :
          Count(c) = 1 /\ Cardinality(DOMAIN PivotRow(c)) >= 2 /\ ReportedCols(c) = {}
    /\ \E c \in DOMAIN expense_pivot : Count(c) = 0 /\ ReportedCols(c) = {}

MarketingIs(vals) ==
    /\ fin_loaded
    /\ "Marketing" \in DOMAIN expense_pivot
    /\ expense_pivot.Marketing = [j \in 1..Len(vals) |-> F(vals[j])]

\* C10 as claimed: with the monthly values [100,100,100,100,500] the month of 500
\* is reported; with [100] or [100,100] no month is reported.
C10_OutlierOfFiveReported ==
    /\ MarketingIs(<<100, 100, 100, 100, 500>>) => Reported("Marketing", 5)
    /\ MarketingIs(<<100>>) => ReportedCols("Marketing") = {}
    /\ MarketingIs(<<100, 100>>) => ReportedCols("Marketing") = {}

\* C10 amended: with the monthly values [100,100,100,100,500] no month is
\* reported, the mean being 180 and the sample variance 32000 (threshold about
\* 716.7); with [100] or [100,100] no month is reported.
C10_OutlierOfFiveNotReported ==
    /\ MarketingIs(<<100, 100, 100, 100, 500>>) =>
          /\ ReportedCols("Marketing") = {}
          /\ threshold.Marketing = [mean |-> F(180), var |-> F(32000)]
    /\ MarketingIs(<<100>>) => ReportedCols("Marketing") = {}
    /\ MarketingIs(<<100, 100>>) => ReportedCols("Marketing") = {}

\* the page has run on the values [100,100,100,100,500]
C10_Witness ==
    /\ MarketingIs(<<100, 100, 100, 100, 500>>)
    /\ \A i \in 1..Len(anomalies) : anomalies[i].category # "Marketing"

\* the month of the injected Marketing amount of the file
SpikeMonth ==
    CHOOSE m \in ScenarioMonths : fin_csv.Marketing[m][1] \in SpikeAmounts

\* the entries of the anomaly list for category c
EntriesOf(c) == SelectSeq(anomalies, LAMBDA e : e.category = c)

\* C11: on a file whose Marketing expense is about 3500 (within 5%) in ten months
\* and about 3.5 times that in one month, the anomaly list has exactly one entry
\* for Marketing, the month of the high amount; none of the ten other months is
\* reported.
C11_InjectedMonthIsTheOnlyAnomaly ==
    (fin_loaded /\ fin_csv \in ScenarioFiles) =>
        /\ Len(EntriesOf("Marketing")) = 1
        /\ EntriesOf("Marketing")[1].month = SpikeMonth
        /\ EntriesOf("Marketing")[1].amount = F(fin_csv.Marketing[SpikeMonth][1])
        /\ \A m \in ScenarioMonths \ {SpikeMonth} :
              \A i \in 1..Len(anomalies) :
                  anomalies[i].category = "Marketing" => anomalies[i].month # m

\* the page has run on a file with the lowest injected amount and the base
\* amounts spread over both ends of the noise, and reports the injected month
C11_Witness ==
    /\ fin_loaded
    /\ fin_csv \in ScenarioFiles
    /\ fin_csv.Marketing[SpikeMonth] = <<67>>
    /\ Cardinality({m \in ScenarioMonths : fin_csv.Marketing[m] = <<19>>}) = 5
    /\ Cardinality({m \in ScenarioMonths : fin_csv.Marketing[m] = <<21>>}) = 5
    /\ \E i \in 1..Len(anomalies) :
          anomalies[i].category = "Marketing" /\ anomalies[i].month = SpikeMonth

\* the last row of the monthly summary of the file
LastMonth == LET ms == monthly_summary(fin_csv, fin_income) IN ms[Len(ms)]

\* 1 + sales_growth_rate
GrowthFactor == DecAdd(DecOfInt(1), sales_growth_rate)

\* the forecast expense is last expense + new expense in every month
ExpenseIsFlat ==
    \A i \in 1..ForecastHorizon :
        DecEq(forecast_df[i].Expense,
              DecOfInt(LastMonth.Expense + new_monthly_expense))

\* the forecast income of month 1 is last income * (1 + growth), and the income of
\* each later month is (1 + growth) times the income of the month before
IncomeCompounds ==
    /\ DecEq(forecast_df[1].Income, DecMul(DecOfInt(LastMonth.Income), GrowthFactor))
    /\ \A i \in 1..(ForecastHorizon - 1) :
            DecEq(forecast_df[i + 1].Income,
                  DecMul(forecast_df[i].Income, GrowthFactor))

\* CashFlow is Income - Expense and has the same value in all the months
CashFlowIsConstant ==
    \A i \in 1..ForecastHorizon :
        /\ DecEq(forecast_df[i].CashFlow,
                 DecSub(forecast_df[i].Income, forecast_df[i].Expense))
        /\ DecEq(forecast_df[i].CashFlow, forecast_df[1].CashFlow)

\* C21: after a run of the forecaster the forecast has 12 months, its expense is
\* the last known expense plus the new monthly expense in every month and its
\* income compounds the last known income by (1 + growth) each month; for a
\* positive last known income the trend word is 'upwards' exactly when the growth
\* rate is above 0, and at growth 0 it is 'downwards' while the cash flow is the
\* same in all 12 months.
C21_ForecastAndTrend ==
    fin_loaded =>
        /\ Len(forecast_df) = ForecastHorizon
        /\ ExpenseIsFlat
        /\ IncomeCompounds
        /\ trend \in {"upwards", "downwards"}
        /\ LastMonth.Income > 0 =>
            /\ trend = "upwards" <=> DecLt(DecOfInt(0), sales_growth_rate)
            /\ DecEq(sales_growth_rate, DecOfInt(0)) =>
                    (trend = "downwards" /\ CashFlowIsConstant)

\* a run with positive last income at growth 0: constant cash flow, 'downwards'
C21_Witness ==
    /\ fin_loaded
    /\ LastMonth.Income > 0
    /\ DecEq(sales_growth_rate, DecOfInt(0))
    /\ new_monthly_expense > 0
    /\ trend = "downwards"
    /\ CashFlowIsConstant

\* ================================================ properties: sales dashboards
\* the row labels of the loaded records that the selection of the widgets admits
Selected ==
    {i \in 1..Len(sales_df) :
        /\ date_input[1] <= sales_df[i].OrderDate
        /\ sales_df[i].OrderDate <= date_input[2]
        /\ sales_df[i].Category \in selected_categories
        /\ sales_df[i].MarketingSource \in selected_sources}

\* filtered_df holds each selected record once and nothing else
FilteredIsSelected ==
    /\ {sales_filtered_df[k] : k \in 1..Len(sales_filtered_df)}
            = {sales_df[i] : i \in Selected}
    /\ Len(sales_filtered_df) = Cardinality(Selected)

\* the four KPIs are those of the selected records
KpisOverSelected ==
    /\ sales_kpis # NoKpis
    /\ sales_kpis.total_revenue = SumOver(sales_df, "TotalRevenue", Selected)
    /\ sales_kpis.total_sales = SumOver(sales_df, "Quantity", Selected)
    /\ FEq(sales_kpis.avg_satisfaction,
           Frac(SumOver(sales_df, "SatisfactionScore", Selected),
                Cardinality(Selected)))
    /\ sales_kpis.unique_customers
            = Cardinality({sales_df[i].CustomerName : i \in Selected})

\* C22: after a completed run of either sales dashboard, filtered_df is exactly the
\* loaded records whose OrderDate lies between the selected start and end date,
\* both included, and whose Category and MarketingSource are among the selected
\* values; in app.py an empty filtered_df gives the warning and no KPI, and a
\* non-empty one gives the KPIs of exactly these records and no warning.
C22_FilteredSetAndEmptyCheck ==
    sales_end = "done" =>
        /\ sales_df = sales_load_data(sales_csv)
        /\ FilteredIsSelected
        /\ sales_page = "app.py" =>
            IF Selected = {}
            THEN sales_warning /\ sales_kpis = NoKpis
            ELSE ~sales_warning /\ KpisOverSelected

\* app.py with a narrowed selection: a record on the last selected day is kept,
\* another record is filtered out, and the KPIs are shown
C22_Witness ==
    /\ sales_end = "done"
    /\ sales_page = "app.py"
    /\ \E k \in 1..Len(sales_filtered_df) :
            sales_filtered_df[k].OrderDate = date_input[2]
    /\ Len(sales_filtered_df) < Len(sales_df)
    /\ sales_kpis # NoKpis
    /\ ~sales_warning

\* =========================================== properties: Customer Intelligence
\* C18: the churn risk of a health score is High below 45, Medium from 45 to 75
\* and Low above 75.
C18_ChurnRiskByThresholds ==
    \A i \in 1..Len(cust_csv) :
        LET r == cust_csv[i]
        IN  /\ r.HealthScore < 45 => r.ChurnRisk = "High"
            /\ (45 <= r.HealthScore /\ r.HealthScore <= 75) => r.ChurnRisk = "Medium"
            /\ r.HealthScore > 75 => r.ChurnRisk = "Low"

\* C20: the colour of a health score on the scorecard agrees with the churn risk
\* the generator gave it: green exactly for Low, gold exactly for Medium, red
\* exactly for High.
C20_ColourAgreesWithChurnRisk ==
    \A i \in 1..Len(styled_df) :
        LET r == styled_df[i]
        IN  /\ r.color = SeaGreen <=> r.ChurnRisk = "Low"
            /\ r.color = GoldenRod <=> r.ChurnRisk = "Medium"
            /\ r.color = FireBrick <=> r.ChurnRisk = "High"

====
